---------------------------- MODULE Spec2Model ----------------------------
(***************************************************************************)
(* Model of morse-audio-decoder (morse_audio_decoder/morse.py and          *)
(* morse_audio_decoder/processing.py).                                     *)
(*                                                                         *)
(* numpy arrays and Python lists are TLA+ sequences.  TLA+ sequences are   *)
(* 1-based; every index VALUE the program computes (edge positions, break  *)
(* indices, cluster labels) is kept 0-based as in the source, and the      *)
(* operators that read a sequence by such a value add 1.                   *)
(* A Morse string such as ".-" is the sequence <<".", "-">>; a decoded     *)
(* text is the sequence of its one-character strings.                      *)
(***************************************************************************)
EXTENDS Integers, Sequences, FiniteSets, TLC

VARIABLES
    pc,                  \* position of the call sequence under study
    raised,              \* exception that left the last call, "none" when it returned
    data,                \* MorseCode.data / smoothed_power's data: the sample array
    on_samples,          \* ON run lengths
    off_samples,         \* OFF run lengths
    on_clustering,       \* KMeans(n_clusters=2) fitted in _dash_dot_characters
    off_clustering,      \* KMeans(n_clusters=3) fitted in _break_spaces
    dash_dot_characters, \* symbols returned by _dash_dot_characters
    char_break_idx,      \* first array returned by _break_spaces
    word_space_idx,      \* second array returned by _break_spaces
    morse_words,         \* list of words, each a list of Morse strings
    text,                \* str returned by _translate / decode
    message,             \* the message a synthetic keying sequence encodes
    _morse_to_char,      \* MorseCode._morse_to_char: 0 is None, else the dict's identity
    ndicts,              \* dict objects built so far by the getter (identities 1..ndicts)
    tpc,                 \* per thread: position inside the morse_to_char getter
    tresult,             \* per thread: identity of the dict its last access returned
    taccesses,           \* per thread: accesses of morse_to_char started so far
    dtype,               \* data.dtype of smoothed_power's input
    secure_dtype,        \* smoothed_power: secure_data.dtype
    secure_data          \* smoothed_power: the converted array that is squared

runVars == <<data, on_samples, off_samples>>
classVars == <<on_clustering, off_clustering, dash_dot_characters,
               char_break_idx, word_space_idx>>
textVars == <<morse_words, text, message>>
cacheVars == <<_morse_to_char, ndicts, tpc, tresult, taccesses>>
powerVars == <<dtype, secure_dtype, secure_data>>

vars == <<pc, raised, runVars, classVars, textVars, cacheVars, powerVars>>

--------------------------------------------------------------------------
(* Bounds *)

MaxData == 6        \* longest keying sequence given to _on_off_samples
Unit == 2           \* samples per Morse time unit in the run-length arrays
MaxRuns == 5        \* most ON runs given to the duration classifier
MaxSymbols == 3     \* most symbols given to _morse_words on its own
MaxBreaks == 2      \* most character breaks, and most word breaks, given to it
MaxWords == 2       \* most words of a message / of _translate's input
MaxWordLen == 2     \* most characters of a word
NumThreads == 3     \* threads that read MorseCode.morse_to_char
MaxAccesses == 2    \* reads of morse_to_char per thread
MaxSamples == 2     \* longest sample array given to smoothed_power

--------------------------------------------------------------------------
(* Generic helpers for numpy / list idioms *)

\* All sequences over S of length lo..hi
SeqsOf(S, lo, hi) == UNION {[1..n -> S] : n \in lo..hi}

\* 0-based positions of a sequence of length n, ascending
Indices(n) == [i \in 1..n |-> i - 1]

\* np.nonzero(arr == v)[0]
NonZeroEq(arr, v) == SelectSeq(Indices(Len(arr)), LAMBDA i : arr[i + 1] = v)

\* np.nonzero(arr != v)[0]
NonZeroNe(arr, v) == SelectSeq(Indices(Len(arr)), LAMBDA i : arr[i + 1] # v)

\* np.diff(arr): first differences; empty for fewer than two samples
Diff(arr) == [i \in 1..(Len(arr) - 1) |-> arr[i + 1] - arr[i]]

\* a - b on two 1-D integer arrays of equal length
ArraySub(a, b) == [i \in 1..Len(a) |-> a[i] - b[i]]

--------------------------------------------------------------------------
(* Values of the variables a specification does not exercise *)

NoClustering == [labels_ |-> <<>>, cluster_centers_ |-> <<>>]

IdleRun == data = <<>> /\ on_samples = <<>> /\ off_samples = <<>>

IdleClass ==
    /\ on_clustering = NoClustering
    /\ off_clustering = NoClustering
    /\ dash_dot_characters = <<>>
    /\ char_break_idx = <<>>
    /\ word_space_idx = <<>>

IdleText == morse_words = <<>> /\ text = <<>> /\ message = <<>>

IdleCache ==
    /\ _morse_to_char = 0
    /\ ndicts = 0
    /\ tpc = <<>>
    /\ tresult = <<>>
    /\ taccesses = <<>>

IdlePower == dtype = "none" /\ secure_dtype = "none" /\ secure_data = <<>>

--------------------------------------------------------------------------
(* Run-Length Detector: MorseCode._on_off_samples *)

OnOffSamples(d) ==
    LET square_diff == Diff(d)
        rising_idx0 == NonZeroEq(square_diff, 1)
        falling_idx0 == NonZeroEq(square_diff, -1)
    IN  \* falling_idx[0] < rising_idx[0] indexes both arrays
        IF Len(falling_idx0) = 0 \/ Len(rising_idx0) = 0
        THEN [raised |-> "IndexError", on |-> <<>>, off |-> <<>>]
        ELSE
        LET rising_idx ==
                IF falling_idx0[1] < rising_idx0[1]
                THEN <<-1>> \o rising_idx0
                ELSE rising_idx0
            falling_idx ==
                IF rising_idx[Len(rising_idx)] > falling_idx0[Len(falling_idx0)]
                THEN Append(falling_idx0, Len(d) - 1)
                ELSE falling_idx0
        IN  IF Len(falling_idx) # Len(rising_idx)
            THEN [raised |-> "ValueError", on |-> <<>>, off |-> <<>>]
            ELSE [raised |-> "none",
                  on |-> ArraySub(falling_idx, rising_idx),
                  off |-> ArraySub(SubSeq(rising_idx, 2, Len(rising_idx)),
                                   SubSeq(falling_idx, 1, Len(falling_idx) - 1))]

InitOnOff ==
    /\ pc = "on_off"
    /\ raised = "none"
    /\ data \in SeqsOf({0, 1}, 2, MaxData)   \* a keying sequence has length > 1
    /\ on_samples = <<>>
    /\ off_samples = <<>>
    /\ IdleClass /\ IdleText /\ IdleCache /\ IdlePower

CallOnOffSamples ==
    /\ pc = "on_off"
    /\ LET r == OnOffSamples(data)
       IN  /\ raised' = r.raised
           /\ on_samples' = r.on
           /\ off_samples' = r.off
    /\ pc' = "on_off_done"
    /\ UNCHANGED <<data, classVars, textVars, cacheVars, powerVars>>

NextOnOff == CallOnOffSamples

SpecOnOff == InitOnOff /\ [][NextOnOff]_vars

(* What the keying sequence itself says, read off the samples (not the edges) *)

\* 1-based positions where a maximal run of value v starts
RunStarts(d, v) ==
    SelectSeq([i \in 1..Len(d) |-> i],
              LAMBDA i : d[i] = v /\ (i = 1 \/ d[i - 1] # v))

\* number of samples of the maximal run that starts at position i
RunLength(d, i) ==
    LET last == CHOOSE j \in i..Len(d) :
                    /\ \A m \in i..j : d[m] = d[i]
                    /\ (j = Len(d) \/ d[j + 1] # d[i])
    IN  last - i + 1

\* lengths of the maximal runs of value v, in order
MaximalRuns(d, v) ==
    LET starts == RunStarts(d, v)
    IN  [k \in 1..Len(starts) |-> RunLength(d, starts[k])]

StartsOn == data[1] = 1
EndsOn == data[Len(data)] = 1
AbsDiff(a, b) == IF a >= b THEN a - b ELSE b - a

\* C3: for every binary keying sequence (also one that begins or ends on, has a
\* single edge, or has no edge) _on_off_samples returns ON and OFF durations
\* whose lengths differ by at most 1.
C3_RunAlternation ==
    pc = "on_off_done" =>
        /\ raised = "none"
        /\ AbsDiff(Len(on_samples), Len(off_samples)) <= 1

\* The part of C3 the code does satisfy: whenever the call returns, there is
\* exactly one OFF run fewer than ON runs.
RunAlternationWhenReturned ==
    (pc = "on_off_done" /\ raised = "none") =>
        Len(on_samples) = Len(off_samples) + 1

\* The call returns exactly when the sequence has a rising and a falling edge.
ReturnsIffBothEdges ==
    pc = "on_off_done" =>
        (raised = "none" <=> (\E i \in 1..(Len(data) - 1) : data[i] < data[i + 1])
                             /\ (\E i \in 1..(Len(data) - 1) : data[i] > data[i + 1]))

\* C4: for every keying sequence that starts on and ends on, _on_off_samples
\* completes without an index error, every ON length is the number of samples
\* of the corresponding maximal run of 1s, and every OFF length the number of
\* samples of the corresponding maximal run of 0s between two ON runs.
C4_BoundaryEdges ==
    (pc = "on_off_done" /\ StartsOn /\ EndsOn) =>
        /\ raised = "none"
        /\ on_samples = MaximalRuns(data, 1)
        /\ off_samples = MaximalRuns(data, 0)

\* The part of C4 the code does satisfy: with at least one off sample between
\* the on edges the returned lengths are the run lengths.
BoundaryEdgesWithAGap ==
    (pc = "on_off_done" /\ StartsOn /\ EndsOn /\ \E i \in 1..Len(data) : data[i] = 0) =>
        /\ raised = "none"
        /\ on_samples = MaximalRuns(data, 1)
        /\ off_samples = MaximalRuns(data, 0)

--------------------------------------------------------------------------
(* Duration Classifier: sklearn KMeans as the two passes use it *)

Range(f) == {f[i] : i \in DOMAIN f}
Dist(a, b) == IF a >= b THEN a - b ELSE b - a

\* clustering.labels_: every sample is assigned to its nearest centre; np.argmin
\* takes the lowest label among equally near centres
NearestLabel(x, centers) ==
    (CHOOSE l \in 1..Len(centers) :
        \A m \in 1..Len(centers) :
            \/ Dist(x, centers[l]) < Dist(x, centers[m])
            \/ (Dist(x, centers[l]) = Dist(x, centers[m]) /\ l <= m)) - 1

\* The fitted centres KMeans(n_clusters=k).fit can end with on samples that hold
\* at most k distinct magnitudes: every distinct magnitude is a centre, and the
\* numbering of the clusters (which label gets which centre) is the library's.
\* With fewer than k distinct magnitudes the surplus centres duplicate a
\* magnitude (sklearn warns "Number of distinct clusters found smaller than
\* n_clusters" through the warnings machinery and returns).
FittedCenters(samples, k) ==
    {c \in [1..k -> Range(samples)] : Range(c) = Range(samples)}

\* KMeans(n_clusters=k, random_state=0).fit(column_vec) with fitted centres c
KMeansFit(samples, c) ==
    [labels_ |-> [i \in 1..Len(samples) |-> NearestLabel(samples[i], c)],
     cluster_centers_ |-> c]

\* np.argsort(a).tolist(): the 0-based positions that sort a ascending (numpy
\* sorts arrays this short by insertion, which keeps equal elements in order)
ArgSort(a) ==
    [r \in 1..Len(a) |->
        (CHOOSE l \in 1..Len(a) :
            Cardinality({m \in 1..Len(a) :
                a[m] < a[l] \/ (a[m] = a[l] /\ m < l)}) = r - 1) - 1]

\* list.index(x): 0-based position of the first x
ListIndex(lst, x) ==
    (CHOOSE i \in 1..Len(lst) :
        lst[i] = x /\ \A j \in 1..(i - 1) : lst[j] # x) - 1

\* cluster_sort_idx.index(0) in _dash_dot_characters
DotLabel(cluster_sort_idx) == ListIndex(cluster_sort_idx, 0)

\* cluster_sort_idx.index(1) in _dash_dot_characters
DashLabel(cluster_sort_idx) == ListIndex(cluster_sort_idx, 1)

\* cluster_sort_idx.index(0) in _break_spaces
IntraSpaceLabel(cluster_sort_idx) == ListIndex(cluster_sort_idx, 0)

\* cluster_sort_idx.index(2) in _break_spaces
WordSpaceLabel(cluster_sort_idx) == ListIndex(cluster_sort_idx, 2)

\* MorseCode._dash_dot_characters after the fit: labels to "." and "-".
\* dash_dot_map.get gives None for a label that is neither.
DashDotCharacters(clustering) ==
    LET cluster_sort_idx == ArgSort(clustering.cluster_centers_)
        dot_label == DotLabel(cluster_sort_idx)
        dash_label == DashLabel(cluster_sort_idx)
    IN  [i \in 1..Len(clustering.labels_) |->
            IF clustering.labels_[i] = dash_label THEN "-"
            ELSE IF clustering.labels_[i] = dot_label THEN "."
            ELSE "None"]

\* mutant: the word breaks are not shifted to "before the next character"
BreakSpaces_WordIdxNotShifted(clustering) ==
    LET labels == clustering.labels_
        cluster_sort_idx == ArgSort(clustering.cluster_centers_)
        intra_space_label == IntraSpaceLabel(cluster_sort_idx)
        nonintra == NonZeroNe(labels, intra_space_label)
        char_or_word_space_arr == SelectSeq(labels, LAMBDA l : l # intra_space_label)
        word_space_label == WordSpaceLabel(cluster_sort_idx)
        words == NonZeroEq(char_or_word_space_arr, word_space_label)
    IN  [char_break_idx |-> [i \in 1..Len(nonintra) |-> nonintra[i] + 1],
         word_space_idx |-> words]

\* MorseCode._break_spaces after the fit
BreakSpaces(clustering) ==
    LET labels == clustering.labels_
        cluster_sort_idx == ArgSort(clustering.cluster_centers_)
        intra_space_label == IntraSpaceLabel(cluster_sort_idx)
        nonintra == NonZeroNe(labels, intra_space_label)
        char_or_word_space_arr == SelectSeq(labels, LAMBDA l : l # intra_space_label)
        word_space_label == WordSpaceLabel(cluster_sort_idx)
        words == NonZeroEq(char_or_word_space_arr, word_space_label)
    IN  [char_break_idx |-> [i \in 1..Len(nonintra) |-> nonintra[i] + 1],
         word_space_idx |-> [i \in 1..Len(words) |-> words[i] + 1]]

--------------------------------------------------------------------------
(* Segmenter: MorseCode._morse_words *)

Min2(a, b) == IF a <= b THEN a ELSE b
Max2(a, b) == IF a >= b THEN a ELSE b

\* Python's reading of a slice bound on a sequence of length n
SliceBound(i, n) == IF i < 0 THEN Max2(i + n, 0) ELSE Min2(i, n)

\* seq[i:j]
PySlice(seq, i, j) == SubSeq(seq, SliceBound(i, Len(seq)) + 1, SliceBound(j, Len(seq)))

\* mutant: every slice after a break starts one position late
SplitAt_StartAfterBreak(seq, idx) ==
    LET start_idx == <<0>> \o [k \in 1..Len(idx) |-> idx[k] + 1]
        end_idx == Append(idx, Len(seq))
    IN  [k \in 1..Len(start_idx) |-> PySlice(seq, start_idx[k], end_idx[k])]

\* [seq[i:j] for i, j in zip([0] + idx, idx + [len(seq)])]
SplitAt(seq, idx) ==
    LET start_idx == <<0>> \o idx
        end_idx == Append(idx, Len(seq))
    IN  [k \in 1..Len(start_idx) |-> PySlice(seq, start_idx[k], end_idx[k])]

\* line 199-204: the Morse characters ("".join of the symbols of each slice)
MorseCharacters(raw_dash_dot, cbi) == SplitAt(raw_dash_dot, cbi)

MorseWords(raw_dash_dot, cbi, wsi) ==
    SplitAt(MorseCharacters(raw_dash_dot, cbi), wsi)

--------------------------------------------------------------------------
(* The classifier and the segmenter on run-length arrays.  The arrays are   *)
(* what _on_off_samples returns for a keyed message: one OFF run fewer than *)
(* ON runs, ON runs of 1 or 3 units, OFF runs of 1, 3 or 7 units.           *)

OnDurations == {Unit, 3 * Unit}
OffDurations == {Unit, 3 * Unit, 7 * Unit}

InitClassify ==
    /\ pc = "dash_dot"
    /\ raised = "none"
    /\ data = <<>>
    /\ on_samples \in SeqsOf(OnDurations, 1, MaxRuns)
    /\ off_samples \in SeqsOf(OffDurations, Len(on_samples) - 1, Len(on_samples) - 1)
    /\ IdleClass /\ IdleText /\ IdleCache /\ IdlePower

\* _dash_dot_characters(on_samples); KMeans.fit refuses fewer samples than clusters
CallDashDotCharacters ==
    /\ pc = "dash_dot"
    /\ IF Len(on_samples) < 2
       THEN /\ raised' = "ValueError"
            /\ pc' = "dash_dot_raised"
            /\ UNCHANGED <<on_clustering, dash_dot_characters>>
       ELSE \E c \in FittedCenters(on_samples, 2) :
            /\ on_clustering' = KMeansFit(on_samples, c)
            /\ dash_dot_characters' = DashDotCharacters(KMeansFit(on_samples, c))
            /\ raised' = "none"
            /\ pc' = "break_spaces"
    /\ UNCHANGED <<runVars, off_clustering, char_break_idx, word_space_idx,
                   textVars, cacheVars, powerVars>>

\* _break_spaces(off_samples)
CallBreakSpaces ==
    /\ pc = "break_spaces"
    /\ IF Len(off_samples) < 3
       THEN /\ raised' = "ValueError"
            /\ pc' = "break_spaces_raised"
            /\ UNCHANGED <<off_clustering, char_break_idx, word_space_idx>>
       ELSE \E c \in FittedCenters(off_samples, 3) :
            LET r == BreakSpaces(KMeansFit(off_samples, c))
            IN  /\ off_clustering' = KMeansFit(off_samples, c)
                /\ char_break_idx' = r.char_break_idx
                /\ word_space_idx' = r.word_space_idx
                /\ raised' = "none"
                /\ pc' = "morse_words"
    /\ UNCHANGED <<runVars, on_clustering, dash_dot_characters,
                   textVars, cacheVars, powerVars>>

\* _morse_words(raw_dash_dot, char_break_idx, word_space_idx)
CallMorseWords ==
    /\ pc = "morse_words"
    /\ morse_words' = MorseWords(dash_dot_characters, char_break_idx, word_space_idx)
    /\ pc' = "morse_words_done"
    /\ UNCHANGED <<raised, runVars, classVars, text, message, cacheVars, powerVars>>

NextClassify == CallDashDotCharacters \/ CallBreakSpaces \/ CallMorseWords

SpecClassify == InitClassify /\ [][NextClassify]_vars

(* Reading the results *)

\* rank (0 = smallest) of the centre of the cluster sample i was put in
CentroidRank(clustering, i) ==
    LET c == clustering.cluster_centers_
    IN  Cardinality({v \in Range(c) : v < c[clustering.labels_[i] + 1]})

DashDotReturned == pc \in {"break_spaces", "break_spaces_raised", "morse_words",
                           "morse_words_done"}
\* the state right after the call to _dash_dot_characters
DashDotLeft == pc \in {"break_spaces", "dash_dot_raised"}
BreakSpacesReturned == pc \in {"morse_words", "morse_words_done"}

\* first half of C2: the smaller-centroid cluster is ".", the larger "-"
DashDotByCentroidRank ==
    (DashDotReturned /\ Cardinality(Range(on_samples)) = 2) =>
        \A i \in 1..Len(on_samples) :
            dash_dot_characters[i] =
                IF CentroidRank(on_clustering, i) = 0 THEN "." ELSE "-"

\* second half of C2: smallest centroid makes no break, the middle and the
\* largest make a character break, the largest a word break
BreakSpacesByCentroidRank ==
    (BreakSpacesReturned /\ Cardinality(Range(off_samples)) = 3) =>
        LET n == Len(off_samples)
            gaps == SelectSeq([i \in 1..n |-> i],
                              LAMBDA i : CentroidRank(off_clustering, i) # 0)
            wordgaps == SelectSeq([j \in 1..Len(gaps) |-> j],
                              LAMBDA j : CentroidRank(off_clustering, gaps[j]) = 2)
        IN  /\ char_break_idx = gaps
            /\ word_space_idx = wordgaps

\* C2: in both clustering passes the roles follow the centroid rank, however the
\* clustering numbers its labels: smaller centroid is ".", larger "-"; smallest
\* centroid is the intra-character gap, the middle the character gap, the
\* largest the word gap.
C2_RolesByCentroidRank == DashDotByCentroidRank /\ BreakSpacesByCentroidRank

\* C5: ON durations of a single magnitude end _dash_dot_characters in the
\* ambiguous-timing error (the UserWarning __main__ catches) and never in a
\* returned symbol sequence.  Stated for the arrays KMeans.fit accepts (at
\* least two ON runs); a single ON run ends in sklearn's ValueError.
C5_AmbiguousTimingRaised ==
    (DashDotLeft /\ Len(on_samples) >= 2 /\ Cardinality(Range(on_samples)) = 1) =>
        /\ raised = "UserWarning"
        /\ dash_dot_characters = <<>>

\* What the code does instead: with one magnitude and at least two ON runs the
\* call returns one symbol per run, all of them the same.
OneMagnitudeReturnsSymbols ==
    (DashDotLeft /\ Len(on_samples) >= 2 /\ Cardinality(Range(on_samples)) = 1) =>
        /\ raised = "none"
        /\ Len(dash_dot_characters) = Len(on_samples)
        /\ Cardinality(Range(dash_dot_characters)) = 1

(* Where a symbol and a character ended up in the nested result *)

RECURSIVE Flatten(_)
Flatten(ss) == IF ss = <<>> THEN <<>> ELSE Head(ss) \o Flatten(Tail(ss))

RECURSIVE SumLen(_, _)
SumLen(ss, n) == IF n = 0 THEN 0 ELSE Len(ss[n]) + SumLen(ss, n - 1)

\* the element of ss (1-based) that holds the p-th item of Flatten(ss)
HolderOf(ss, p) ==
    CHOOSE m \in 1..Len(ss) : SumLen(ss, m - 1) < p /\ p <= SumLen(ss, m)

\* character (1-based, counted over the whole message) that holds symbol p
CharOfSymbol(p) == HolderOf(Flatten(morse_words), p)

\* word that holds character m
WordOfChar(m) == HolderOf(morse_words, m)

LabelsAscending == ArgSort(off_clustering.cluster_centers_) = <<0, 1, 2>>

\* C10: with the OFF classes labelled in ascending centroid order (0 intra-
\* character, 1 character, 2 word gap), _break_spaces followed by _morse_words
\* puts symbols k and k+1 in the same character iff OFF run k is an intra-
\* character gap, and in different words iff OFF run k is a word gap; no
\* symbol is lost.
C10_BreaksAtTheGaps ==
    (pc = "morse_words_done" /\ LabelsAscending) =>
        /\ Flatten(Flatten(morse_words)) = dash_dot_characters
        /\ \A k \in 1..Len(off_samples) :
            LET label == off_clustering.labels_[k]
            IN  /\ (CharOfSymbol(k) = CharOfSymbol(k + 1)) <=> (label = 0)
                /\ (WordOfChar(CharOfSymbol(k)) # WordOfChar(CharOfSymbol(k + 1)))
                        <=> (label = 2)

C10_Witness ==
    /\ pc = "morse_words_done"
    /\ LabelsAscending
    /\ Range(off_clustering.labels_) = {0, 1, 2}
    /\ Len(morse_words) = 2
    /\ Len(morse_words[1]) = 2

--------------------------------------------------------------------------
(* The segmenter on its own: any symbols, any ascending break lists *)

IsAscending(idx) == \A i \in 1..(Len(idx) - 1) : idx[i] <= idx[i + 1]

AscendingLists(S, maxlen) == {idx \in SeqsOf(S, 0, maxlen) : IsAscending(idx)}

InitSegment ==
    /\ pc = "morse_words"
    /\ raised = "none"
    /\ IdleRun
    /\ on_clustering = NoClustering
    /\ off_clustering = NoClustering
    /\ dash_dot_characters \in SeqsOf({".", "-"}, 0, MaxSymbols)
    /\ char_break_idx \in AscendingLists(0..(MaxSymbols + 1), MaxBreaks)
    /\ word_space_idx \in AscendingLists(0..(MaxBreaks + 2), MaxBreaks)
    /\ IdleText /\ IdleCache /\ IdlePower

NextSegment == CallMorseWords

SpecSegment == InitSegment /\ [][NextSegment]_vars

\* number of entries of idx that are <= i
BreaksUpTo(idx, i) == Cardinality({k \in 1..Len(idx) : idx[k] <= i})

\* C6: for every symbol sequence and ascending break lists _morse_words
\* returns len(word_space_idx)+1 words holding len(char_break_idx)+1 characters
\* in all; a boundary lies immediately before each break index (the symbol at
\* 0-based position i is in the character numbered by the breaks <= i, the
\* character at position m in the word numbered by the word breaks <= m); and
\* the characters of all words, concatenated in order, are the input symbols.
C6_SegmenterPartition ==
    pc = "morse_words_done" =>
        LET chars == Flatten(morse_words)
        IN  /\ Len(morse_words) = Len(word_space_idx) + 1
            /\ Len(chars) = Len(char_break_idx) + 1
            /\ Flatten(chars) = dash_dot_characters
            /\ \A p \in 1..Len(dash_dot_characters) :
                   CharOfSymbol(p) = 1 + BreaksUpTo(char_break_idx, p - 1)
            /\ \A m \in 1..Len(chars) :
                   WordOfChar(m) = 1 + BreaksUpTo(word_space_idx, m - 1)

C6_Witness ==
    /\ pc = "morse_words_done"
    /\ Len(dash_dot_characters) = MaxSymbols
    /\ char_break_idx = <<1, 2>>
    /\ word_space_idx = <<1>>
    /\ Len(morse_words) = 2
    /\ Len(morse_words[2]) = 2

--------------------------------------------------------------------------
(* Character Table: morse.ini as ConfigParser reads it (keys lower-cased),  *)
(* section "characters": digits, letters and the full stop.                 *)

MorseIni ==
    {<<"a", <<".", "-">>>>,
     <<"b", <<"-", ".", ".", ".">>>>,
     <<"c", <<"-", ".", "-", ".">>>>,
     <<"d", <<"-", ".", ".">>>>,
     <<"e", <<".">>>>,
     <<"f", <<".", ".", "-", ".">>>>,
     <<"g", <<"-", "-", ".">>>>,
     <<"h", <<".", ".", ".", ".">>>>,
     <<"i", <<".", ".">>>>,
     <<"j", <<".", "-", "-", "-">>>>,
     <<"k", <<"-", ".", "-">>>>,
     <<"l", <<".", "-", ".", ".">>>>,
     <<"m", <<"-", "-">>>>,
     <<"n", <<"-", ".">>>>,
     <<"o", <<"-", "-", "-">>>>,
     <<"p", <<".", "-", "-", ".">>>>,
     <<"q", <<"-", "-", ".", "-">>>>,
     <<"r", <<".", "-", ".">>>>,
     <<"s", <<".", ".", ".">>>>,
     <<"t", <<"-">>>>,
     <<"u", <<".", ".", "-">>>>,
     <<"v", <<".", ".", ".", "-">>>>,
     <<"w", <<".", "-", "-">>>>,
     <<"x", <<"-", ".", ".", "-">>>>,
     <<"y", <<"-", ".", "-", "-">>>>,
     <<"z", <<"-", "-", ".", ".">>>>,
     <<"0", <<"-", "-", "-", "-", "-">>>>,
     <<"1", <<".", "-", "-", "-", "-">>>>,
     <<"2", <<".", ".", "-", "-", "-">>>>,
     <<"3", <<".", ".", ".", "-", "-">>>>,
     <<"4", <<".", ".", ".", ".", "-">>>>,
     <<"5", <<".", ".", ".", ".", ".">>>>,
     <<"6", <<"-", ".", ".", ".", ".">>>>,
     <<"7", <<"-", "-", ".", ".", ".">>>>,
     <<"8", <<"-", "-", "-", ".", ".">>>>,
     <<"9", <<"-", "-", "-", "-", ".">>>>,
     <<".", <<".", "-", ".", "-", ".", "-">>>>}

\* str.upper() on a key of the table
Upper(key) ==
    CASE key = "a" -> "A" []
    key = "b" -> "B" []
    key = "c" -> "C" []
    key = "d" -> "D" []
    key = "e" -> "E" []
    key = "f" -> "F" []
    key = "g" -> "G" []
    key = "h" -> "H" []
    key = "i" -> "I" []
    key = "j" -> "J" []
    key = "k" -> "K" []
    key = "l" -> "L" []
    key = "m" -> "M" []
    key = "n" -> "N" []
    key = "o" -> "O" []
    key = "p" -> "P" []
    key = "q" -> "Q" []
    key = "r" -> "R" []
    key = "s" -> "S" []
    key = "t" -> "T" []
    key = "u" -> "U" []
    key = "v" -> "V" []
    key = "w" -> "W" []
    key = "x" -> "X" []
    key = "y" -> "Y" []
    key = "z" -> "Z"
      [] OTHER -> key

\* the dict the morse_to_char getter builds: {chars[key]: key.upper() for key in chars}
MorseToCharDict ==
    [m \in {e[2] : e \in MorseIni} |->
        Upper((CHOOSE e \in MorseIni : e[2] = m)[1])]

\* mutant: a missing key reads as the empty string, so the character vanishes
DictGet_EmptyDefault(d, k) == IF k \in DOMAIN d THEN <<d[k]>> ELSE <<>>

\* Python's None among strings (a string is the sequence of its characters)
None == <<"None">>

\* dict.get(k): the one-character string stored under k, or None
DictGet(d, k) == IF k \in DOMAIN d THEN <<d[k]>> ELSE None

\* sep.join(parts) for parts that are character sequences
RECURSIVE StrJoin(_, _)
StrJoin(sep, parts) ==
    IF parts = <<>> THEN <<>>
    ELSE IF Len(parts) = 1 THEN parts[1]
    ELSE parts[1] \o sep \o StrJoin(sep, Tail(parts))

\* MorseCode._translate: "".join raises TypeError on a None item
Translate(words) ==
    LET char_dict == MorseToCharDict
        char_lists == [w \in 1..Len(words) |->
                          [c \in 1..Len(words[w]) |-> DictGet(char_dict, words[w][c])]]
    IN  IF \E w \in 1..Len(words) : \E c \in 1..Len(words[w]) :
               char_lists[w][c] = None
        THEN [raised |-> "TypeError", text |-> <<>>]
        ELSE [raised |-> "none",
              text |-> StrJoin(<<" ">>,
                               [w \in 1..Len(words) |-> StrJoin(<<>>, char_lists[w])])]

\* Morse strings given to _translate: two of the table (A, T), one that is not
TranslateStrings == {<<".", "-">>, <<"-">>, <<"-", "-", "-", "-">>}

InitTranslate ==
    /\ pc = "translate"
    /\ raised = "none"
    /\ IdleRun /\ IdleClass /\ IdleCache /\ IdlePower
    /\ morse_words \in SeqsOf(SeqsOf(TranslateStrings, 0, MaxWordLen), 0, MaxWords)
    /\ text = <<>>
    /\ message = <<>>

\* _translate(morse_words); reading self.morse_to_char fills the class cache
CallTranslate ==
    /\ pc = "translate"
    /\ _morse_to_char' = IF _morse_to_char = 0 THEN ndicts + 1 ELSE _morse_to_char
    /\ ndicts' = IF _morse_to_char = 0 THEN ndicts + 1 ELSE ndicts
    /\ LET r == Translate(morse_words)
       IN  raised' = r.raised /\ text' = r.text
    /\ pc' = "translate_done"
    /\ UNCHANGED <<runVars, classVars, morse_words, message, tpc, tresult,
                   taccesses, powerVars>>

NextTranslate == CallTranslate

SpecTranslate == InitTranslate /\ [][NextTranslate]_vars

IsUnknown(morse) == morse \notin DOMAIN MorseToCharDict

HasUnknown ==
    \E w \in 1..Len(morse_words) : \E c \in 1..Len(morse_words[w]) :
        IsUnknown(morse_words[w][c])

\* 1-based position in the text of character c of word w when nothing is dropped
TextPosition(w, c) == SumLen(morse_words, w - 1) + (w - 1) + c

\* C7: a Morse string with no entry in the Character Table is never silently
\* skipped by _translate: the call fails, or the text holds every character
\* and, at the position of each unknown one, a marker that is neither a space
\* nor a character of the table.
C7_UnknownNeverSkipped ==
    (pc = "translate_done" /\ HasUnknown) =>
        \/ raised # "none"
        \/ /\ Len(text) = SumLen(morse_words, Len(morse_words)) + Len(morse_words) - 1
           /\ \A w \in 1..Len(morse_words) : \A c \in 1..Len(morse_words[w]) :
                  IsUnknown(morse_words[w][c]) =>
                      /\ text[TextPosition(w, c)] # " "
                      /\ text[TextPosition(w, c)] \notin Range(MorseToCharDict)

C7_Witness ==
    /\ pc = "translate_done"
    /\ HasUnknown
    /\ raised = "TypeError"
    /\ \E w \in 1..Len(morse_words) : \E c \in 1..Len(morse_words[w]) :
           ~IsUnknown(morse_words[w][c])

\* Known strings translate to their characters, words joined by one space.
KnownTranslates ==
    (pc = "translate_done" /\ ~HasUnknown) =>
        /\ raised = "none"
        /\ text = StrJoin(<<" ">>,
               [w \in 1..Len(morse_words) |->
                   [c \in 1..Len(morse_words[w]) |->
                       IF morse_words[w][c] = <<"-">> THEN "T" ELSE "A"]])

--------------------------------------------------------------------------
(* decode on a synthetic keying sequence (tests: hello_data, test_decode) *)

\* characters the encoded messages are written in
MessageChars == {"E", "T", "A"}

\* the Morse string of a character, read from the Character Table
CharToMorse(ch) == (CHOOSE e \in MorseIni : Upper(e[1]) = ch)[2]

\* np.repeat(arr, n)
Repeat(arr, n) == [i \in 1..(Len(arr) * n) |-> arr[((i - 1) \div n) + 1]]

\* hello_data: "." -> "10", "-" -> "1110", " " -> "00", "|" -> "000000",
\* "000" in front, "00" behind, every sample repeated
HelloData(msg) ==
    LET symbol(sym) == IF sym = "." THEN <<1, 0>> ELSE <<1, 1, 1, 0>>
        character(ch) ==
            LET m == CharToMorse(ch)
            IN  Flatten([i \in 1..Len(m) |-> symbol(m[i])])
        word(w) == StrJoin(<<0, 0>>, [i \in 1..Len(w) |-> character(w[i])])
        keyed == StrJoin(<<0, 0, 0, 0, 0, 0>>, [i \in 1..Len(msg) |-> word(msg[i])])
    IN  Repeat(<<0, 0, 0>> \o keyed \o <<0, 0>>, Unit)

\* MorseCode.decode
Decode(d) == [raised |-> "NotImplementedError", text |-> <<>>]

InitDecode ==
    /\ pc = "decode"
    /\ raised = "none"
    /\ message \in SeqsOf(SeqsOf(MessageChars, 1, MaxWordLen), 1, MaxWords)
    /\ data = HelloData(message)
    /\ on_samples = <<>>
    /\ off_samples = <<>>
    /\ morse_words = <<>>
    /\ text = <<>>
    /\ IdleClass /\ IdleCache /\ IdlePower

CallDecode ==
    /\ pc = "decode"
    /\ LET r == Decode(data)
       IN  raised' = r.raised /\ text' = r.text
    /\ pc' = "decode_done"
    /\ UNCHANGED <<runVars, classVars, morse_words, message, cacheVars, powerVars>>

NextDecode == CallDecode

SpecDecode == InitDecode /\ [][NextDecode]_vars

\* C1: round trip: for every message over the Character Table alphabet,
\* MorseCode(data).decode() on its keying sequence (dot 1 unit on, dash 3,
\* gaps of 1, 3 and 7 units off, leading and trailing off samples) returns
\* exactly the message, words joined by single spaces.
C1_RoundTrip ==
    pc = "decode_done" =>
        /\ raised = "none"
        /\ text = StrJoin(<<" ">>, message)

\* The fixture's timing is the one the claim names: ON runs of 1 and 3 units,
\* OFF runs of 1, 3 and 7 units, one OFF run fewer than ON runs.
HelloDataTiming ==
    pc = "decode" =>
        LET r == OnOffSamples(data)
        IN  /\ r.raised = "none"
            /\ Range(r.on) \subseteq {Unit, 3 * Unit}
            /\ Range(r.off) \subseteq {Unit, 3 * Unit, 7 * Unit}
            /\ Len(r.on) = Len(r.off) + 1

--------------------------------------------------------------------------
(* Character Table cache: the MorseCode.morse_to_char getter, read by       *)
(* several threads.  Its statements are separate steps: between the test    *)
(* of the class attribute and its assignment the getter reads a file.       *)

Threads == 1..NumThreads

InitCache ==
    /\ pc = "cache"
    /\ raised = "none"
    /\ IdleRun /\ IdleClass /\ IdleText /\ IdlePower
    /\ _morse_to_char = 0
    /\ ndicts = 0
    /\ tpc = [t \in Threads |-> "idle"]
    /\ tresult = [t \in Threads |-> 0]
    /\ taccesses = [t \in Threads |-> 0]

\* a decode invocation reads cls.morse_to_char
Access(t) ==
    /\ pc = "cache"
    /\ tpc[t] = "idle"
    /\ taccesses[t] < MaxAccesses
    /\ tpc' = [tpc EXCEPT ![t] = "check"]
    /\ taccesses' = [taccesses EXCEPT ![t] = @ + 1]
    /\ UNCHANGED <<pc, raised, runVars, classVars, textVars, _morse_to_char,
                   ndicts, tresult, powerVars>>

\* if cls._morse_to_char is not None: return cls._morse_to_char
CheckCache(t) ==
    /\ pc = "cache"
    /\ tpc[t] = "check"
    /\ IF _morse_to_char # 0
       THEN /\ tresult' = [tresult EXCEPT ![t] = _morse_to_char]
            /\ tpc' = [tpc EXCEPT ![t] = "idle"]
       ELSE /\ tpc' = [tpc EXCEPT ![t] = "read_ini"]
            /\ UNCHANGED tresult
    /\ UNCHANGED <<pc, raised, runVars, classVars, textVars, _morse_to_char,
                   ndicts, taccesses, powerVars>>

\* config = ConfigParser(); config.read(morse.ini); chars = config["characters"]
ReadIni(t) ==
    /\ pc = "cache"
    /\ tpc[t] = "read_ini"
    /\ tpc' = [tpc EXCEPT ![t] = "assign"]
    /\ UNCHANGED <<pc, raised, runVars, classVars, textVars, _morse_to_char,
                   ndicts, tresult, taccesses, powerVars>>

\* cls._morse_to_char = {chars[key]: key.upper() for key in chars}: a new dict
AssignCache(t) ==
    /\ pc = "cache"
    /\ tpc[t] = "assign"
    /\ ndicts' = ndicts + 1
    /\ _morse_to_char' = ndicts + 1
    /\ tpc' = [tpc EXCEPT ![t] = "return"]
    /\ UNCHANGED <<pc, raised, runVars, classVars, textVars, tresult, taccesses,
                   powerVars>>

\* return cls._morse_to_char
ReturnCache(t) ==
    /\ pc = "cache"
    /\ tpc[t] = "return"
    /\ tresult' = [tresult EXCEPT ![t] = _morse_to_char]
    /\ tpc' = [tpc EXCEPT ![t] = "idle"]
    /\ UNCHANGED <<pc, raised, runVars, classVars, textVars, _morse_to_char,
                   ndicts, taccesses, powerVars>>

NextCache ==
    \E t \in Threads :
        Access(t) \/ CheckCache(t) \/ ReadIni(t) \/ AssignCache(t) \/ ReturnCache(t)

SpecCache == InitCache /\ [][NextCache]_vars

\* C8: with concurrent accesses while the cache is unset the table is built and
\* assigned at most once, and every access that has returned holds the table
\* that is cached (it was neither rebuilt nor replaced).
C8_OneTimeInit ==
    /\ ndicts <= 1
    /\ \A t \in Threads : tresult[t] \in {0, _morse_to_char}

\* What does hold: an access that starts once the cache is set returns the
\* cached table and builds nothing.
CachedOnceSet ==
    [][\A t \in Threads :
          (_morse_to_char # 0 /\ tpc[t] = "check" /\ tpc'[t] # "check") =>
              /\ tresult'[t] = _morse_to_char
              /\ UNCHANGED <<_morse_to_char, ndicts>>]_vars

--------------------------------------------------------------------------
(* Envelope Extractor: the conversion smoothed_power makes before squaring. *)
(* A sample is its mathematical value written in two's complement as five   *)
(* 16-bit limbs, least significant first (80 bits hold every 64-bit signed  *)
(* and unsigned value), so that a cast's truncation is a computation.       *)
(* The Hann window, the convolution and the square root (lines 34-39) work  *)
(* on real numbers and are not part of the model.                           *)

IntegerDtypes == {"int8", "int16", "int32", "int64",
                  "uint8", "uint16", "uint32", "uint64"}

\* ndarray.itemsize: the size of one element in BYTES
ItemSize(dt) ==
    CASE dt \in {"int8", "uint8"} -> 1
      [] dt \in {"int16", "uint16"} -> 2
      [] dt \in {"int32", "uint32"} -> 4
      [] dt \in {"int64", "uint64"} -> 8

\* width of a dtype in bits
BitWidth(dt) == 8 * ItemSize(dt)

\* limbs of a value that fits 32 signed bits
Limbs(v) ==
    LET fill == IF v < 0 THEN 65535 ELSE 0
    IN  <<v % 65536, (v \div 65536) % 65536, fill, fill, fill>>

\* the smallest, the largest and the small values of a dtype
SamplesOf(dt) ==
    CASE dt = "int8" -> {Limbs(-128), Limbs(-1), Limbs(0), Limbs(1), Limbs(127)}
      [] dt = "int16" -> {Limbs(-32768), Limbs(-1), Limbs(0), Limbs(1), Limbs(32767)}
      [] dt = "int32" -> {Limbs(-2147483647 - 1), Limbs(-1), Limbs(0), Limbs(1),
                          Limbs(2147483647)}
      [] dt = "int64" -> {<<0, 0, 0, 32768, 65535>>, Limbs(-1), Limbs(0), Limbs(1),
                          <<65535, 65535, 65535, 32767, 0>>}
      [] dt = "uint8" -> {Limbs(0), Limbs(1), Limbs(255)}
      [] dt = "uint16" -> {Limbs(0), Limbs(1), Limbs(65535)}
      [] dt = "uint32" -> {Limbs(0), Limbs(1), <<65535, 65535, 0, 0, 0>>}
      [] dt = "uint64" -> {Limbs(0), Limbs(1), <<65535, 65535, 65535, 65535, 0>>}

\* x.astype(np.int32) of one sample: the low 32 bits, read as a signed number
AsTypeInt32(x) ==
    LET fill == IF x[2] >= 32768 THEN 65535 ELSE 0
    IN  <<x[1], x[2], fill, fill, fill>>

\* lines 28-29 for an integer dtype:
\* secure_data = data.astype(np.int32) if data.itemsize < 32 else data
SecureData(dt, arr) ==
    IF ItemSize(dt) < 32
    THEN [dtype |-> "int32", values |-> [i \in 1..Len(arr) |-> AsTypeInt32(arr[i])]]
    ELSE [dtype |-> dt, values |-> arr]

InitPower ==
    /\ pc = "smoothed_power"
    /\ raised = "none"
    /\ dtype \in IntegerDtypes
    /\ data \in SeqsOf(SamplesOf(dtype), 1, MaxSamples)
    /\ on_samples = <<>>
    /\ off_samples = <<>>
    /\ secure_dtype = "none"
    /\ secure_data = <<>>
    /\ IdleClass /\ IdleText /\ IdleCache

CallSmoothedPower ==
    /\ pc = "smoothed_power"
    /\ LET r == SecureData(dtype, data)
       IN  secure_dtype' = r.dtype /\ secure_data' = r.values
    /\ pc' = "smoothed_power_squared"
    /\ UNCHANGED <<raised, runVars, classVars, textVars, cacheVars, dtype>>

NextPower == CallSmoothedPower

SpecPower == InitPower /\ [][NextPower]_vars

\* C9: for every integer sample type (8, 16, 32 and 64 bits) smoothed_power
\* squares the samples in a type at least as wide as the input and at least
\* 32 bits wide, so the conversion before squaring leaves every sample as it is.
C9_PromotedBeforeSquaring ==
    pc = "smoothed_power_squared" =>
        /\ BitWidth(secure_dtype) >= BitWidth(dtype)
        /\ BitWidth(secure_dtype) >= 32
        /\ secure_data = data

\* What does hold: the samples are always squared as int32, and the signed
\* types of at most 32 bits and the unsigned types of at most 16 keep their values.
SquaredAsInt32 ==
    pc = "smoothed_power_squared" =>
        /\ secure_dtype = "int32"
        /\ dtype \in {"int8", "int16", "int32", "uint8", "uint16"} => secure_data = data

--------------------------------------------------------------------------
(* The whole program: any one of the call sequences above *)

Init ==
    \/ InitOnOff
    \/ InitClassify
    \/ InitSegment
    \/ InitTranslate
    \/ InitDecode
    \/ InitCache
    \/ InitPower

Next ==
    \/ NextOnOff
    \/ NextClassify
    \/ NextTranslate
    \/ NextDecode
    \/ NextCache
    \/ NextPower

Spec == Init /\ [][Next]_vars

==========================================================================
